---- MODULE Spec2Model ----
(***************************************************************************)
(* Azure-Principal-Sync: the ServicePrincipal synchronisation engine.      *)
(*                                                                         *)
(* One ServicePrincipal instance, called from the main thread              *)
(* (manual_sync_service_principal, auto_sync_service_principal) and from   *)
(* the background sync_thread.  Each thread runs the engine's methods as   *)
(* a call stack of labels; a label is a source line at which the thread    *)
(* touches the instance's fields, reads the clock or waits for the         *)
(* network.  The token-issuing client, the directory (Graph) responses and *)
(* the clock are the environment: each call draws its answer from a small  *)
(* set.                                                                    *)
(***************************************************************************)
EXTENDS Integers, Sequences, FiniteSets, TLC

\* ------------------------------------------------------------------ bounds
\* The clock (datetime.now()) takes the values 0..MaxTime.
MaxTime == 1
\* The expires_in every issued token carries, in clock units.
ExpiresIn == 1
\* The largest number of records in one appRoleAssignedTo response.
MaxAssign == 2

\* ------------------------------------------------ the directory's universe
UserIds == {"u1", "u2"}
GroupIds == {"g1", "g2"}

\* principalDisplayName / displayName of a principal.
DisplayName(id) == "name." \o id
\* userPrincipalName of a user.
PrincipalName(id) == id \o "@corp"
\* The appRoleId of the assignment that grants the principal access.
AppRoleOf(id) == IF id \in GroupIds THEN "role." \o id ELSE "role.user"

\* One record of an appRoleAssignedTo response.
AssignmentRecord(type, id) ==
    [principalType |-> type, principalId |-> id,
     principalDisplayName |-> DisplayName(id), appRoleId |-> AppRoleOf(id)]

AssignmentRecords ==
    {AssignmentRecord("User", u) : u \in UserIds} \cup
    {AssignmentRecord("Group", g) : g \in GroupIds}

\* The sequences over S of length at most n.
SeqUpTo(S, n) == UNION {[1..k -> S] : k \in 0..n}

\* The "value" arrays an appRoleAssignedTo query can answer with.
AssignmentResponses == SeqUpTo(AssignmentRecords, MaxAssign)

\* One record of a group's members response.
MemberRecord(u) ==
    [id |-> u, displayName |-> DisplayName(u), userPrincipalName |-> PrincipalName(u)]

\* The "value" arrays a members query can answer with: every member once.
MemberResponses ==
    {s \in SeqUpTo({MemberRecord(u) : u \in UserIds}, Cardinality(UserIds)) :
        \A i, j \in 1..Len(s) : i # j => s[i].id # s[j].id}

\* The appRoles arrays a servicePrincipals/<id> query can answer with.
RoleResponses == {<<>>, <<"role.user">>, <<"role.user", "role.g1">>}

\* ------------------------------------------------------------- the threads
MainThread == "main"
\* The sync_threads auto_sync_service_principal creates, in order of creation.
FirstLoop == "loop"
SecondLoop == "loop2"
LoopThreads == {FirstLoop, SecondLoop}
Threads == {MainThread} \cup LoopThreads

\* self.__access_token = None
NoToken == 0
\* self.__access_token_expiry = None
NoExpiry == -1
\* self.__service_principal_id = None, and a function returning None
NoneId == "None"
\* The id of the application's servicePrincipal record.
PrincipalId == "sp.id"

\* A list reference: NoneRef is Python's None, FreshRef a list literal [] that
\* nothing else refers to, 1..HeapSize a list object shared through the heap.
NoneRef == -1
FreshRef == 0
HeapSize == Cardinality(Threads) + 1

VARIABLES
    now,                    \* the last value datetime.now() returned
    access_token,           \* self.__access_token: NoToken or the issuance's number
    access_token_expiry,    \* self.__access_token_expiry
    expiry_issue,           \* history: the issuance that wrote access_token_expiry
    issued,                 \* history: the number of tokens issued so far
    service_principal_id,   \* self.__service_principal_id
    sync_thread,            \* self.__sync_thread
    current_sync_users,     \* self.__current_sync_users: a heap reference
    heap,                   \* the list objects: reference -> sequence of UserPrincipal
    pc,                     \* per thread: the call stack, current label first
    loc,                    \* per thread: the local variables of its frames
    qlog,                   \* history, per thread: the directory queries of the
                            \* sync in progress, then of its callback dispatch
    obs,                    \* history, per thread: what the sync's fetches answered
    cblog,                  \* history, per thread: the callbacks invoked in its cycle
    outcome                 \* per thread: how its cycle ended, for its caller

vars == <<now, access_token, access_token_expiry, expiry_issue, issued,
          service_principal_id, sync_thread, current_sync_users, heap,
          pc, loc, qlog, obs, cblog, outcome>>

tokenVars == <<access_token, access_token_expiry, expiry_issue, issued>>
listVars == <<current_sync_users, heap>>
histVars == <<qlog, obs, cblog, outcome>>

\* ----------------------------------------------------------------- helpers
Top(t) == Head(pc[t])

\* The thread's top label is replaced by the labels `ls`.
Jump(t, ls) == pc' = [pc EXCEPT ![t] = ls \o Tail(pc[t])]
\* The current function returns to its caller.
Return(t) == pc' = [pc EXCEPT ![t] = Tail(pc[t])]

\* A call of `callee` that first passes check_access_token and then goes on
\* at `entry`; the caller resumes at `cont`.
GatedCall(entry, cont) == <<"cat57", entry, cont>>
\* A call of get_service_principal; the caller resumes at `cont`.
CallGetServicePrincipal(cont) == GatedCall("gsp101", cont)

InitLoc ==
    [gatNow |-> 0, result |-> 0, calls |-> 0, gate |-> "none",
     rvId |-> NoneId, rvList |-> FreshRef, rvGroups |-> <<>>, rvMembers |-> <<>>,
     rvEmail |-> "", rvRoles |-> <<>>, appRoles |-> <<>>, held |-> <<>>,
     groups |-> <<>>, users |-> FreshRef, own |-> <<>>, gi |-> 0, ui |-> 0,
     user |-> "None",
     cbU |-> FALSE, cbG |-> FALSE, cbP |-> FALSE]

InitObs ==
    [startFail |-> FALSE, snapshot |-> <<>>, userFetch |-> "none", direct |-> <<>>,
     members |-> <<>>, dupWarn |-> FALSE, expanded |-> <<>>]

\* The references some frame or field still holds, given the threads' locals.
LiveRefs(cur, l) == {cur} \cup {l[t].users : t \in Threads} \cup {l[t].rvList : t \in Threads}
\* The heap with every unreferenced list object collected.
Collect(h, cur, l) == [r \in DOMAIN h |-> IF r \in LiveRefs(cur, l) THEN h[r] ELSE <<>>]

Query(q, id) == [q |-> q, id |-> id]
Logged(t, q, id) == qlog' = [qlog EXCEPT ![t] = Append(@, Query(q, id))]

\* The cycle of thread t is over: its frames' locals are gone, and the
\* histories of the cycle with them.  The callbacks are the closure of the
\* sync_thread, which a pass of the loop keeps.
Finish(t, how) ==
    /\ loc' = [loc EXCEPT ![t] =
                  IF pc'[t] = <<"loop386">>
                  THEN [InitLoc EXCEPT !.cbU = loc[t].cbU, !.cbG = loc[t].cbG,
                                       !.cbP = loc[t].cbP]
                  ELSE InitLoc]
    /\ heap' = Collect(heap, current_sync_users, loc')
    /\ qlog' = [qlog EXCEPT ![t] = <<>>]
    /\ obs' = [obs EXCEPT ![t] = InitObs]
    /\ cblog' = [cblog EXCEPT ![t] = <<>>]
    /\ outcome' = [outcome EXCEPT ![t] = how]

\* An exception leaves every frame of the thread.  In the sync_thread nothing
\* catches it and the thread ends; in the main thread it reaches the caller of
\* manual_sync_service_principal.
Raise(t, exc) ==
    /\ pc' = [pc EXCEPT ![t] = IF t \in LoopThreads THEN <<"dead">> ELSE <<"raised">>]
    /\ Finish(t, exc)

Init ==
    /\ now = 0
    /\ access_token = NoToken
    /\ access_token_expiry = NoExpiry
    /\ expiry_issue = 0
    /\ issued = 0
    /\ service_principal_id = NoneId
    /\ sync_thread = "None"
    /\ current_sync_users = 1
    /\ heap = [r \in 1..HeapSize |-> <<>>]
    /\ pc = [t \in Threads |-> IF t = MainThread THEN <<"idle">> ELSE <<"unstarted">>]
    /\ loc = [t \in Threads |-> InitLoc]
    /\ qlog = [t \in Threads |-> <<>>]
    /\ obs = [t \in Threads |-> InitObs]
    /\ cblog = [t \in Threads |-> <<>>]
    /\ outcome = [t \in Threads |-> "none"]

\* -------------------------------------------------- the token gate (52-87)
\* A gate that also accepts a token whose expiry is the clock value.
TokenValidAtExpiry(tok, exp, t0) == tok # NoToken /\ exp >= t0

\* The gate's test, lines 57 and 72, on the clock value `t0`.
TokenValid(tok, exp, t0) == tok # NoToken /\ exp > t0

\* check_access_token, lines 54-61: read the clock, return on a valid cached
\* token, otherwise enter __get_access_token.  A stored token beside an absent
\* expiry makes line 57 compare None with a datetime: TypeError.
CheckAccessToken(t) ==
    /\ Top(t) = "cat57"
    /\ \E n \in now..MaxTime :
        /\ now' = n
        /\ IF access_token # NoToken /\ access_token_expiry = NoExpiry
           THEN Raise(t, "TypeError")
           ELSE /\ IF TokenValid(access_token, access_token_expiry, n)
                   THEN Return(t) /\ UNCHANGED loc
                   ELSE /\ Jump(t, <<"gat70">>)
                        /\ loc' = [loc EXCEPT ![t].gate = "refresh"]
                /\ UNCHANGED <<heap, histVars>>
    /\ UNCHANGED <<tokenVars, service_principal_id, sync_thread, current_sync_users>>

\* A __get_access_token that waits while another thread is between its
\* request and the store of the answer.
GetAccessTokenExclusive(t) ==
    /\ Top(t) = "gat70"
    /\ \A u \in Threads \ {t} : Top(u) \notin {"gat75", "gat80", "gat81"}
    /\ \E n \in now..MaxTime :
        /\ now' = n
        /\ IF access_token # NoToken /\ access_token_expiry > n
           THEN /\ Jump(t, <<"cat63">>)
                /\ loc' = [loc EXCEPT ![t].gatNow = n, ![t].gate = "cached"]
           ELSE /\ Jump(t, <<"gat75">>)
                /\ loc' = [loc EXCEPT ![t].gatNow = n, ![t].calls = @ + 1]
    /\ UNCHANGED <<tokenVars, service_principal_id, sync_thread, listVars, histVars>>

\* __get_access_token, lines 70-75: read the clock again, return the cached
\* token when it is valid by now, otherwise call acquire_token_for_client.
GetAccessToken(t) ==
    /\ Top(t) = "gat70"
    /\ \E n \in now..MaxTime :
        /\ now' = n
        /\ IF TokenValid(access_token, access_token_expiry, n)
           THEN /\ Jump(t, <<"cat63">>)
                /\ loc' = [loc EXCEPT ![t].gatNow = n, ![t].gate = "cached"]
           ELSE /\ Jump(t, <<"gat75">>)
                /\ loc' = [loc EXCEPT ![t].gatNow = n, ![t].calls = @ + 1]
    /\ UNCHANGED <<tokenVars, service_principal_id, sync_thread, listVars, histVars>>

\* The cycle's first gate: get_service_principal called from line 348.
AtSyncStart(t) == Len(pc[t]) >= 3 /\ pc[t][2] = "gsp101" /\ pc[t][3] = "sync349"

\* A refresh that forgets the stored token and expiry when none is issued.
AcquireTokenClearing(t) ==
    /\ Top(t) = "gat75"
    /\ \E ok \in BOOLEAN :
        IF ok
        THEN /\ issued' = issued + 1
             /\ Jump(t, <<"gat80">>)
             /\ loc' = [loc EXCEPT ![t].gate = "issued", ![t].result = issued + 1]
             /\ obs' = obs
             /\ UNCHANGED <<access_token, access_token_expiry>>
        ELSE /\ issued' = issued
             /\ Jump(t, <<"cat63">>)
             /\ loc' = [loc EXCEPT ![t].gate = "failed"]
             /\ obs' = [obs EXCEPT ![t].startFail = @ \/ AtSyncStart(t)]
             /\ access_token' = NoToken
             /\ access_token_expiry' = NoExpiry
    /\ UNCHANGED <<now, expiry_issue, service_principal_id, sync_thread, listVars,
                   qlog, cblog, outcome>>

\* acquire_token_for_client answers, lines 75-77 and 84-87: a result with an
\* access_token, or one without.
AcquireToken(t) ==
    /\ Top(t) = "gat75"
    /\ \E ok \in BOOLEAN :
        IF ok
        THEN /\ issued' = issued + 1
             /\ Jump(t, <<"gat80">>)
             /\ loc' = [loc EXCEPT ![t].gate = "issued", ![t].result = issued + 1]
             /\ obs' = obs
        ELSE /\ issued' = issued
             /\ Jump(t, <<"cat63">>)
             /\ loc' = [loc EXCEPT ![t].gate = "failed"]
             /\ obs' = [obs EXCEPT ![t].startFail = @ \/ AtSyncStart(t)]
    /\ UNCHANGED <<now, access_token, access_token_expiry, expiry_issue,
                   service_principal_id, sync_thread, listVars, qlog, cblog, outcome>>

\* An expiry that leaves out the clock value.
ExpireTimeWithoutClock(current_time, expires_in) == expires_in

\* Line 78: expire_time = current_time + timedelta(seconds=expires_in).
ExpireTime(current_time, expires_in) == current_time + expires_in

\* A refresh that writes the token where the expiry is due.
StoreTokenForExpiry(t) ==
    /\ Top(t) = "gat80"
    /\ access_token' = loc[t].result
    /\ Jump(t, <<"gat81">>)
    /\ UNCHANGED <<now, access_token_expiry, expiry_issue, issued,
                   service_principal_id, sync_thread, listVars, loc, histVars>>

\* Lines 78-80: the expiry is written first.
StoreExpiry(t) ==
    /\ Top(t) = "gat80"
    /\ access_token_expiry' = ExpireTime(loc[t].gatNow, ExpiresIn)
    /\ expiry_issue' = loc[t].result
    /\ Jump(t, <<"gat81">>)
    /\ UNCHANGED <<now, access_token, issued, service_principal_id, sync_thread,
                   listVars, loc, histVars>>

\* Line 81: then the token.
StoreToken(t) ==
    /\ Top(t) = "gat81"
    /\ access_token' = loc[t].result
    /\ Jump(t, <<"cat63">>)
    /\ UNCHANGED <<now, access_token_expiry, expiry_issue, issued,
                   service_principal_id, sync_thread, listVars, loc, histVars>>

\* check_access_token, lines 63-66: InvalidToken when no token is stored.
CheckAccessTokenResult(t) ==
    /\ Top(t) = "cat63"
    /\ IF access_token = NoToken
       THEN Raise(t, "InvalidToken")
       ELSE /\ Return(t)
            /\ loc' = [loc EXCEPT ![t].gatNow = 0, ![t].result = 0, ![t].calls = 0,
                                  ![t].gate = "none"]
            /\ UNCHANGED <<heap, histVars>>
    /\ UNCHANGED <<now, tokenVars, service_principal_id, sync_thread,
                   current_sync_users>>

\* ------------------------------------------------ the model objects (Models)
\* UserPrincipal(user_id, email, name, source, permissions).
UserPrincipal(id, email, name, source, permissions) ==
    [user_id |-> id, email |-> email, name |-> name, source |-> source,
     permissions |-> permissions]

\* UserPrincipal.__eq__: two users are equal when their user_id is.
UserEq(a, b) == a.user_id = b.user_id

\* GroupPrincipal(group_id, display_name, permissions_id).
GroupPrincipal(id, name, role) ==
    [group_id |-> id, display_name |-> name, permissions_id |-> role]

\* PrincipalPermissions(permission_id, ..., is_enabled).
PrincipalPermissions(id, enabled) == [id |-> id, is_enabled |-> enabled]

\* list.count(x), by __eq__.
Count(list, x) == Cardinality({i \in 1..Len(list) : UserEq(list[i], x)})

\* The position of the first element of `list` with this user_id (next(...)).
IndexOf(list, id) == CHOOSE i \in 1..Len(list) :
    /\ list[i].user_id = id
    /\ \A j \in 1..(i - 1) : list[j].user_id # id

UserIdsOf(list) == {list[i].user_id : i \in 1..Len(list)}

\* list.remove(x): the list without its first element equal to x.
Remove(list, i) == SubSeq(list, 1, i - 1) \o SubSeq(list, i + 1, Len(list))

\* An existing user who moves to the end of the list without the permission.
MoveToEnd(list, id, role) ==
    LET i == IndexOf(list, id)
    IN  Append(Remove(list, i), list[i])

\* An existing user whose new permission is put in front of the others.
PrependPermission(list, id, role) ==
    LET i == IndexOf(list, id)
        u == [list[i] EXCEPT !.permissions = <<role>> \o @]
    IN  Append(Remove(list, i), u)

\* An existing user who gains the permission only when the entry lacks it.
AppendPermissionOnce(list, id, role) ==
    LET i == IndexOf(list, id)
        u == IF \E k \in 1..Len(list[i].permissions) : list[i].permissions[k] = role
             THEN list[i]
             ELSE [list[i] EXCEPT !.permissions = Append(@, role)]
    IN  Append(Remove(list, i), u)

\* An existing user whose email is blanked when the permission is added.
AppendPermissionClearingEmail(list, id, role) ==
    LET i == IndexOf(list, id)
        u == [list[i] EXCEPT !.permissions = Append(@, role), !.email = ""]
    IN  Append(Remove(list, i), u)

\* Lines 259-261 and 310-312: the existing user gains the permission, leaves the
\* list and is appended to it again.
AppendPermission(list, id, role) ==
    LET i == IndexOf(list, id)
        u == [list[i] EXCEPT !.permissions = Append(@, role)]
    IN  Append(Remove(list, i), u)

\* get_assigned_users, lines 247-261, for one record of the response.
AddDirect(list, rec) ==
    IF rec.principalType # "User" THEN list
    ELSE IF rec.principalId \notin UserIdsOf(list)
    THEN Append(list, UserPrincipal(rec.principalId, "", rec.principalDisplayName,
                                    "Directly", <<rec.appRoleId>>))
    ELSE AppendPermission(list, rec.principalId, rec.appRoleId)

\* get_assigned_users, lines 244-261: the loop over the response's records.
RECURSIVE AggregateDirect(_, _)
AggregateDirect(list, value) ==
    IF value = <<>> THEN list
    ELSE AggregateDirect(AddDirect(list, Head(value)), Tail(value))

\* A member record that replaces the entry the user already has.
AddMemberOverwriting(list, rec, group) ==
    LET new == UserPrincipal(rec.id, rec.userPrincipalName, rec.displayName,
                             group.display_name, <<group.permissions_id>>)
    IN  IF rec.id \notin UserIdsOf(list)
        THEN Append(list, new)
        ELSE Append(Remove(list, IndexOf(list, rec.id)), new)

\* get_users_assigned_to_group, lines 299-312, for one member record.
AddMember(list, rec, group) ==
    IF rec.id \notin UserIdsOf(list)
    THEN Append(list, UserPrincipal(rec.id, rec.userPrincipalName, rec.displayName,
                                    group.display_name, <<group.permissions_id>>))
    ELSE AppendPermission(list, rec.id, group.permissions_id)

\* get_users_assigned_to_group, lines 296-312: the loop over the members.
RECURSIVE AggregateMembers(_, _, _)
AggregateMembers(list, value, group) ==
    IF value = <<>> THEN list
    ELSE AggregateMembers(AddMember(list, Head(value), group), Tail(value), group)

\* get_assigned_groups, lines 157-169: the response's Group records.
RECURSIVE GroupsOf(_)
GroupsOf(value) ==
    IF value = <<>> THEN <<>>
    ELSE LET r == Head(value)
         IN  (IF r.principalType = "Group"
              THEN <<GroupPrincipal(r.principalId, r.principalDisplayName, r.appRoleId)>>
              ELSE <<>>) \o GroupsOf(Tail(value))

\* The User records of a response (what lines 246-247 iterate over).
RECURSIVE DirectOf(_)
DirectOf(value) ==
    IF value = <<>> THEN <<>>
    ELSE (IF Head(value).principalType = "User" THEN <<Head(value)>> ELSE <<>>)
         \o DirectOf(Tail(value))

\* get_assigned_permissions, lines 197-215: one enabled permission per role.
RECURSIVE PermissionsOf(_)
PermissionsOf(roles) ==
    IF roles = <<>> THEN <<>>
    ELSE <<PrincipalPermissions(Head(roles), TRUE)>> \o PermissionsOf(Tail(roles))

\* The list the thread's local `users` denotes (None iterates as nothing here).
UsersOf(t) ==
    IF loc[t].users \in DOMAIN heap THEN heap[loc[t].users] ELSE loc[t].own

\* ------------------------------------------ get_service_principal (94-129)
\* A get_service_principal that never uses the cached id.
IdentityCachedNever(id) == FALSE

\* Line 101: self.__service_principal_id is not None.
IdentityCached(id) == id # NoneId

\* Lines 101-129, after the gate: the cached id, or the lookup by appId.
GetServicePrincipal(t) ==
    /\ Top(t) = "gsp101"
    /\ IF IdentityCached(service_principal_id)
       THEN /\ Return(t)
            /\ loc' = [loc EXCEPT ![t].rvId = service_principal_id]
            /\ UNCHANGED <<service_principal_id, heap, histVars>>
       ELSE \/ Raise(t, "ConnectionError") /\ UNCHANGED service_principal_id
            \/ /\ Logged(t, "identity", "-")
               /\ \E found \in BOOLEAN :
                    /\ service_principal_id' = IF found THEN PrincipalId ELSE NoneId
                    /\ loc' = [loc EXCEPT ![t].rvId = service_principal_id']
               /\ Return(t)
               /\ UNCHANGED <<heap, obs, cblog, outcome>>
    /\ UNCHANGED <<now, tokenVars, sync_thread, current_sync_users>>

\* --------------------------------------------- get_assigned_groups (131-169)
\* Line 138, after the gate: resolve the identity.
GetAssignedGroupsResolve(t) ==
    /\ Top(t) = "gag138"
    /\ Jump(t, CallGetServicePrincipal("gag139"))
    /\ UNCHANGED <<now, tokenVars, service_principal_id, sync_thread, listVars,
                   loc, histVars>>

\* Lines 139-169: the appRoleAssignedTo query, filtered to groups.  The answer
\* given to a sync is remembered: the sync's second appRoleAssignedTo query
\* (get_assigned_users) reads the same assignments.
GetAssignedGroups(t) ==
    /\ Top(t) = "gag139"
    /\ IF loc[t].rvId = NoneId
       THEN /\ loc' = [loc EXCEPT ![t].rvGroups = <<>>]
            /\ Return(t)
            /\ UNCHANGED <<heap, histVars>>
       ELSE \/ Raise(t, "ConnectionError")
            \/ /\ Logged(t, "groups", "-")
               /\ \/ loc' = [loc EXCEPT ![t].rvGroups = <<>>] /\ obs' = obs
                  \/ \E value \in AssignmentResponses :
                     /\ loc' = [loc EXCEPT ![t].rvGroups = GroupsOf(value)]
                     /\ obs' = IF pc[t][2] = "sync354"
                               THEN [obs EXCEPT ![t].snapshot = <<value>>]
                               ELSE obs
               /\ Return(t)
               /\ UNCHANGED <<heap, cblog, outcome>>
    /\ UNCHANGED <<now, tokenVars, service_principal_id, sync_thread,
                   current_sync_users>>

\* ---------------------------------------------- get_assigned_users (217-262)
\* A get_assigned_users that goes on with the working list of the cycle before.
GetAssignedUsersKeep(t) ==
    /\ Top(t) = "gau222"
    /\ Jump(t, CallGetServicePrincipal("gau226"))
    /\ UNCHANGED <<now, tokenVars, service_principal_id, sync_thread, listVars,
                   loc, histVars>>

\* Lines 222-225, after the gate: a new working list, then the identity.
GetAssignedUsersReset(t) ==
    /\ Top(t) = "gau222"
    /\ LET held == {loc[u].users : u \in Threads} \cup {loc[u].rvList : u \in Threads}
           new == CHOOSE r \in DOMAIN heap :
                     r \notin held /\ \A q \in DOMAIN heap : q \notin held => r <= q
       IN  /\ current_sync_users' = new
           /\ heap' = Collect([heap EXCEPT ![new] = <<>>], new, loc)
    /\ Jump(t, CallGetServicePrincipal("gau226"))
    /\ UNCHANGED <<now, tokenVars, service_principal_id, sync_thread, loc, histVars>>

\* The answers to the appRoleAssignedTo query of get_assigned_users: the
\* assignments the sync's first query saw, when it saw any.
UserQueryResponses(snapshot) ==
    IF snapshot = <<>> THEN AssignmentResponses ELSE {snapshot[1]}

\* Lines 226-262: the appRoleAssignedTo query, its User records aggregated
\* into self.__current_sync_users, which is what a 200 response returns.
GetAssignedUsers(t) ==
    /\ Top(t) = "gau226"
    /\ IF loc[t].rvId = NoneId
       THEN /\ loc' = [loc EXCEPT ![t].rvList = FreshRef]
            /\ Return(t)
            /\ UNCHANGED <<heap, histVars>>
       ELSE \/ Raise(t, "ConnectionError")
            \/ /\ Logged(t, "users", "-")
               /\ \/ /\ loc' = [loc EXCEPT ![t].rvList = FreshRef]
                     /\ obs' = [obs EXCEPT ![t].userFetch = "http"]
                     /\ heap' = heap
                  \/ \E value \in UserQueryResponses(obs[t].snapshot) :
                     /\ heap' = [heap EXCEPT ![current_sync_users] =
                                    AggregateDirect(@, value)]
                     /\ loc' = [loc EXCEPT ![t].rvList = current_sync_users]
                     /\ obs' = [obs EXCEPT ![t].userFetch = "ok",
                                           ![t].direct = DirectOf(value)]
               /\ Return(t)
               /\ UNCHANGED <<cblog, outcome>>
    /\ UNCHANGED <<now, tokenVars, service_principal_id, sync_thread,
                   current_sync_users>>

\* ------------------------------------- get_users_assigned_to_group (264-314)
\* Line 271, after the gate: resolve the identity.
GetUsersAssignedToGroupResolve(t) ==
    /\ Top(t) = "gug271"
    /\ Jump(t, CallGetServicePrincipal("gug272"))
    /\ UNCHANGED <<now, tokenVars, service_principal_id, sync_thread, listVars,
                   loc, histVars>>

\* A get_users_assigned_to_group that returns the list it aggregated into.
GroupUsersAggregated(list) == list

\* What get_users_assigned_to_group returns: its local `users`, lines 294 and 314.
GroupUsersResult(list) == <<>>

\* Lines 272-314: the members query, its records aggregated into
\* self.__current_sync_users.
GetUsersAssignedToGroup(t) ==
    /\ Top(t) = "gug272"
    /\ LET group == loc[t].groups[loc[t].gi]
       IN  IF loc[t].rvId = NoneId
           THEN /\ loc' = [loc EXCEPT ![t].rvMembers = <<>>]
                /\ Return(t)
                /\ UNCHANGED <<heap, histVars>>
           ELSE \/ Raise(t, "ConnectionError")
                \/ /\ Logged(t, "members", group.group_id)
                   /\ \/ /\ loc' = [loc EXCEPT ![t].rvMembers = <<>>]
                         /\ obs' = [obs EXCEPT ![t].members =
                                       Append(@, [group |-> group, res |-> "http",
                                                  value |-> <<>>])]
                         /\ heap' = heap
                      \/ \E value \in MemberResponses :
                         /\ heap' = [heap EXCEPT ![current_sync_users] =
                                        AggregateMembers(@, value, group)]
                         /\ loc' = [loc EXCEPT ![t].rvMembers =
                                       GroupUsersResult(heap'[current_sync_users])]
                         /\ obs' = [obs EXCEPT ![t].members =
                                       Append(@, [group |-> group, res |-> "ok",
                                                  value |-> value])]
                   /\ Return(t)
                   /\ UNCHANGED <<cblog, outcome>>
    /\ UNCHANGED <<now, tokenVars, service_principal_id, sync_thread,
                   current_sync_users>>

\* ----------------------------------------- get_user_principal_name (316-340)
\* Lines 322-340, after the gate: the users/<id> query.
GetUserPrincipalName(t) ==
    /\ Top(t) = "upn331"
    /\ \/ Raise(t, "ConnectionError")
       \/ /\ Logged(t, "user", loc[t].user)
          /\ \E email \in {"", PrincipalName(loc[t].user)} :
                loc' = [loc EXCEPT ![t].rvEmail = email]
          /\ Return(t)
          /\ UNCHANGED <<heap, obs, cblog, outcome>>
    /\ UNCHANGED <<now, tokenVars, service_principal_id, sync_thread,
                   current_sync_users>>

\* ---------------------------------------- get_assigned_permissions (171-215)
\* Line 178, after the gate: resolve the identity.
GetAssignedPermissionsResolve(t) ==
    /\ Top(t) = "gap178"
    /\ Jump(t, CallGetServicePrincipal("gap179"))
    /\ UNCHANGED <<now, tokenVars, service_principal_id, sync_thread, listVars,
                   loc, histVars>>

\* A get_assigned_permissions that hands out again the objects of the call
\* before for the roles it still finds.
GetAssignedPermissionsReusing(t) ==
    /\ Top(t) = "gap179"
    /\ IF loc[t].rvId = NoneId
       THEN /\ loc' = [loc EXCEPT ![t].rvRoles = <<>>, ![t].appRoles = <<>>]
            /\ Return(t)
            /\ UNCHANGED <<heap, histVars>>
       ELSE \/ Raise(t, "ConnectionError")
            \/ /\ Logged(t, "roles", "-")
               /\ \/ loc' = [loc EXCEPT ![t].rvRoles = <<>>, ![t].appRoles = <<>>]
                  \/ \E roles \in RoleResponses :
                        LET held == loc[t].held
                            old(id) == {k \in 1..Len(held) : held[k].id = id}
                        IN  loc' = [loc EXCEPT
                                  ![t].rvRoles = [k \in 1..Len(roles) |->
                                        IF old(roles[k]) # {}
                                        THEN held[CHOOSE i \in old(roles[k]) : TRUE]
                                        ELSE PrincipalPermissions(roles[k], TRUE)],
                                  ![t].appRoles = roles]
               /\ Return(t)
               /\ UNCHANGED <<heap, obs, cblog, outcome>>
    /\ UNCHANGED <<now, tokenVars, service_principal_id, sync_thread,
                   current_sync_users>>

\* Lines 179-215: the servicePrincipals/<id> query and its appRoles; appRoles
\* keeps the response's role ids beside the objects made of them.
GetAssignedPermissions(t) ==
    /\ Top(t) = "gap179"
    /\ IF loc[t].rvId = NoneId
       THEN /\ loc' = [loc EXCEPT ![t].rvRoles = <<>>, ![t].appRoles = <<>>]
            /\ Return(t)
            /\ UNCHANGED <<heap, histVars>>
       ELSE \/ Raise(t, "ConnectionError")
            \/ /\ Logged(t, "roles", "-")
               /\ \/ loc' = [loc EXCEPT ![t].rvRoles = <<>>, ![t].appRoles = <<>>]
                  \/ \E roles \in RoleResponses :
                        loc' = [loc EXCEPT ![t].rvRoles = PermissionsOf(roles),
                                          ![t].appRoles = roles]
               /\ Return(t)
               /\ UNCHANGED <<heap, obs, cblog, outcome>>
    /\ UNCHANGED <<now, tokenVars, service_principal_id, sync_thread,
                   current_sync_users>>

\* ------------------------------------------ sync_service_principal (343-367)
\* Lines 349-353: without an identity the sync returns None, otherwise it
\* fetches the groups.
SyncIdentity(t) ==
    /\ Top(t) = "sync349"
    /\ IF loc[t].rvId = NoneId
       THEN /\ loc' = [loc EXCEPT ![t].users = NoneRef]
            /\ Return(t)
       ELSE /\ Jump(t, GatedCall("gag138", "sync354"))
            /\ UNCHANGED loc
    /\ UNCHANGED <<now, tokenVars, service_principal_id, sync_thread, listVars,
                   histVars>>

\* A sync that goes from the groups straight to their members, on the list
\* the instance holds.
SyncGroupsWithoutUsers(t) ==
    /\ Top(t) = "sync354"
    /\ loc' = [loc EXCEPT ![t].groups = loc[t].rvGroups, ![t].rvGroups = <<>>,
                          ![t].rvId = NoneId, ![t].users = current_sync_users,
                          ![t].gi = 1]
    /\ Jump(t, <<"sync356">>)
    /\ UNCHANGED <<now, tokenVars, service_principal_id, sync_thread, listVars,
                   histVars>>

\* Lines 353-354: groups = get_assigned_groups(); then get_assigned_users().
SyncGroups(t) ==
    /\ Top(t) = "sync354"
    /\ loc' = [loc EXCEPT ![t].groups = loc[t].rvGroups, ![t].rvGroups = <<>>,
                          ![t].rvId = NoneId]
    /\ Jump(t, GatedCall("gau222", "sync355"))
    /\ UNCHANGED <<now, tokenVars, service_principal_id, sync_thread, listVars,
                   histVars>>

\* Line 354: users = get_assigned_users().
SyncUsers(t) ==
    /\ Top(t) = "sync355"
    /\ loc' = [loc EXCEPT ![t].users = loc[t].rvList, ![t].own = <<>>, ![t].gi = 1,
                          ![t].rvList = FreshRef, ![t].rvId = NoneId]
    /\ Jump(t, <<"sync356">>)
    /\ UNCHANGED <<now, tokenVars, service_principal_id, sync_thread, listVars,
                   histVars>>

\* Lines 356-359: the next group of the loop, or on to the users.
SyncGroupLoop(t) ==
    /\ Top(t) = "sync356"
    /\ IF loc[t].gi <= Len(loc[t].groups)
       THEN /\ Jump(t, GatedCall("gug271", "sync357"))
            /\ UNCHANGED loc
       ELSE /\ Jump(t, <<"sync359">>)
            /\ loc' = [loc EXCEPT ![t].ui = 1]
    /\ UNCHANGED <<now, tokenVars, service_principal_id, sync_thread, listVars,
                   histVars>>

\* Line 357: users += get_users_assigned_to_group(group), in place.
SyncGroupUsers(t) ==
    /\ Top(t) = "sync357"
    /\ IF loc[t].users \in DOMAIN heap
       THEN /\ heap' = [heap EXCEPT ![loc[t].users] = @ \o loc[t].rvMembers]
            /\ loc' = [loc EXCEPT ![t].gi = @ + 1, ![t].rvMembers = <<>>,
                                  ![t].rvId = NoneId]
       ELSE /\ heap' = heap
            /\ loc' = [loc EXCEPT ![t].own = @ \o loc[t].rvMembers, ![t].gi = @ + 1,
                                  ![t].rvMembers = <<>>, ![t].rvId = NoneId]
    /\ Jump(t, <<"sync356">>)
    /\ UNCHANGED <<now, tokenVars, service_principal_id, sync_thread,
                   current_sync_users, histVars>>

\* An enrichment that looks every user up.
NeedsEmailAlways(user) == TRUE

\* Line 364: the user's email is still empty.
NeedsEmail(user) == user.email = ""

\* Lines 359-367: the next user of the loop: the duplicate warning, the email
\* lookup when the email is empty; after the last user the sync returns users.
SyncUserLoop(t) ==
    /\ Top(t) = "sync359"
    /\ LET list == UsersOf(t)
       IN  IF loc[t].ui <= Len(list)
           THEN LET user == list[loc[t].ui]
                IN  /\ obs' = [obs EXCEPT ![t].dupWarn = @ \/ Count(list, user) > 1]
                    /\ IF NeedsEmail(user)
                       THEN /\ Jump(t, GatedCall("upn331", "sync365"))
                            /\ loc' = [loc EXCEPT ![t].user = user.user_id]
                       ELSE /\ Jump(t, <<"sync359">>)
                            /\ loc' = [loc EXCEPT ![t].ui = @ + 1]
           ELSE /\ Return(t)
                /\ loc' = [loc EXCEPT ![t].gi = 0, ![t].ui = 0]
                /\ UNCHANGED obs
    /\ UNCHANGED <<now, tokenVars, service_principal_id, sync_thread, listVars,
                   qlog, cblog, outcome>>

\* UserPrincipal.set_email on the user of this id.
SetEmail(list, id, email) ==
    [i \in 1..Len(list) |->
        IF list[i].user_id = id THEN [list[i] EXCEPT !.email = email] ELSE list[i]]

\* Line 365: user.set_email(get_user_principal_name(user.user_id)).
SyncSetEmail(t) ==
    /\ Top(t) = "sync365"
    /\ IF loc[t].users \in DOMAIN heap
       THEN /\ heap' = [heap EXCEPT ![loc[t].users] =
                           SetEmail(@, loc[t].user, loc[t].rvEmail)]
            /\ loc' = [loc EXCEPT ![t].ui = @ + 1, ![t].user = "None",
                                  ![t].rvEmail = ""]
       ELSE /\ heap' = heap
            /\ loc' = [loc EXCEPT ![t].own = SetEmail(@, loc[t].user, loc[t].rvEmail),
                                  ![t].ui = @ + 1, ![t].user = "None",
                                  ![t].rvEmail = ""]
    /\ Jump(t, <<"sync359">>)
    /\ UNCHANGED <<now, tokenVars, service_principal_id, sync_thread,
                   current_sync_users, histVars>>

\* ------------------------------------------------ the callbacks (main.py 30-43)
\* print_users_callback: `for user in users` raises TypeError on None.
UserCallbackRaises(users) == users = NoneRef

Called(t, cb) == cblog' = [cblog EXCEPT ![t] = Append(@, cb)]

\* Whether the callback `cb` was passed: the arguments of a manual sync are
\* any, the sync_thread has those of its auto_sync_service_principal call.
Callbacks(t, cb) == IF t \in LoopThreads THEN {loc[t][cb]} ELSE BOOLEAN

\* ------------- the cycle of sync_thread (375-386) and of manual sync (396-408)
StartCycle(t) ==
    /\ pc' = [pc EXCEPT ![t] = CallGetServicePrincipal("sync349") \o <<"cb377">>]
    /\ outcome' = [outcome EXCEPT ![t] = "running"]
    /\ UNCHANGED <<qlog, obs, cblog>>

\* manual_sync_service_principal is called, lines 394-397.
ManualSync(t) ==
    /\ t = MainThread
    /\ pc[t] = <<"idle">>
    /\ StartCycle(t)
    /\ UNCHANGED <<now, tokenVars, service_principal_id, sync_thread, listVars, loc>>

\* The thread object a call of auto_sync_service_principal creates, line 389.
NewThread == IF pc[FirstLoop] = <<"unstarted">> THEN FirstLoop ELSE SecondLoop

\* auto_sync_service_principal is called, lines 369-391: a new daemon thread,
\* whatever was started before.
AutoSync(t) ==
    /\ t = MainThread
    /\ pc[t] = <<"idle">>
    /\ LET l == NewThread
       IN  /\ pc[l] = <<"unstarted">>
           /\ pc' = [pc EXCEPT ![l] = <<"loop376">>]
           /\ sync_thread' = l
           /\ \E u, g, p \in BOOLEAN :
               loc' = [loc EXCEPT ![l] = [InitLoc EXCEPT !.cbU = u, !.cbG = g, !.cbP = p]]
    /\ UNCHANGED <<now, tokenVars, service_principal_id, listVars, histVars>>

\* The application's one call of auto_sync_service_principal.
AutoSyncOnce(t) == sync_thread = "None" /\ AutoSync(t)

\* A loop whose next pass does not wait for the end of the sleep.
LoopIterateOnTimer(t) ==
    /\ t \in LoopThreads
    /\ pc[t] \in {<<"loop376">>, <<"loop386">>}
    /\ StartCycle(t)
    /\ UNCHANGED <<now, tokenVars, service_principal_id, sync_thread, listVars, loc>>

\* Lines 375-376: the loop's next pass calls sync_service_principal.
LoopIterate(t) ==
    /\ t \in LoopThreads
    /\ pc[t] = <<"loop376">>
    /\ StartCycle(t)
    /\ UNCHANGED <<now, tokenVars, service_principal_id, sync_thread, listVars, loc>>

\* Lines 377-378 and 398-399: the user callback gets what the sync returned.
\* Of the sync's histories the dispatch keeps the groups the sync expanded.
CallbackUser(t) ==
    /\ Top(t) = "cb377"
    /\ \E cb \in Callbacks(t, "cbU") :
        IF cb /\ UserCallbackRaises(loc[t].users)
        THEN Raise(t, "TypeError")
        ELSE /\ Jump(t, <<"cb379">>)
             /\ loc' = [loc EXCEPT ![t].cbU = cb, ![t].groups = <<>>]
             /\ cblog' = [cblog EXCEPT ![t] = IF cb THEN <<"user">> ELSE <<>>]
             /\ qlog' = [qlog EXCEPT ![t] = <<>>]
             /\ obs' = [obs EXCEPT ![t] = [InitObs EXCEPT !.expanded = loc[t].groups]]
             /\ UNCHANGED <<heap, outcome>>
    /\ UNCHANGED <<now, tokenVars, service_principal_id, sync_thread,
                   current_sync_users>>

\* A dispatch that fetches the groups and calls back whether or not a group
\* callback was passed.
CallbackGroupFetchAlways(t) ==
    /\ Top(t) = "cb379"
    /\ \E cb \in Callbacks(t, "cbG") :
        /\ loc' = [loc EXCEPT ![t].cbG = cb]
        /\ Jump(t, GatedCall("gag138", "cb381"))
    /\ UNCHANGED <<now, tokenVars, service_principal_id, sync_thread, listVars,
                   histVars>>

\* Lines 379-380 and 400-401: with a group callback, fetch the groups again.
CallbackGroupFetch(t) ==
    /\ Top(t) = "cb379"
    /\ \E cb \in Callbacks(t, "cbG") :
        /\ loc' = [loc EXCEPT ![t].cbG = cb]
        /\ IF cb
           THEN Jump(t, GatedCall("gag138", "cb381"))
           ELSE Jump(t, <<"cb382">>)
    /\ UNCHANGED <<now, tokenVars, service_principal_id, sync_thread, listVars,
                   histVars>>

\* Lines 381 and 402: group_callback(groups).
CallbackGroup(t) ==
    /\ Top(t) = "cb381"
    /\ Called(t, "group")
    /\ loc' = [loc EXCEPT ![t].rvGroups = <<>>, ![t].rvId = NoneId]
    /\ Jump(t, <<"cb382">>)
    /\ UNCHANGED <<now, tokenVars, service_principal_id, sync_thread, listVars,
                   qlog, obs, outcome>>

\* Lines 382-383 and 403-404: with a permission callback, fetch the roles.
CallbackPermissionFetch(t) ==
    /\ Top(t) = "cb382"
    /\ \E cb \in Callbacks(t, "cbP") :
        /\ loc' = [loc EXCEPT ![t].cbP = cb]
        /\ IF cb
           THEN Jump(t, GatedCall("gap178", "cb384"))
           ELSE Jump(t, <<"cb385">>)
    /\ UNCHANGED <<now, tokenVars, service_principal_id, sync_thread, listVars,
                   histVars>>

\* Lines 384 and 405: permission_callback(permissions).
CallbackPermission(t) ==
    /\ Top(t) = "cb384"
    /\ Called(t, "permission")
    /\ loc' = [loc EXCEPT ![t].rvRoles = <<>>, ![t].appRoles = <<>>,
                          ![t].rvId = NoneId]
    /\ Jump(t, <<"cb385">>)
    /\ UNCHANGED <<now, tokenVars, service_principal_id, sync_thread, listVars,
                   qlog, obs, outcome>>

\* A manual sync that returns the users whether or not a callback got them.
ManualResultAlways(cbU, users) ==
    IF users = NoneRef THEN "returned None" ELSE "returned users"

\* What manual_sync_service_principal returns, line 408.
ManualResult(cbU, users) ==
    IF cbU \/ users = NoneRef THEN "returned None" ELSE "returned users"

\* Lines 385-386: the loop goes to sleep.
LoopSleep(t) ==
    /\ t \in LoopThreads
    /\ Top(t) = "cb385"
    /\ pc' = [pc EXCEPT ![t] = <<"loop386">>]
    /\ Finish(t, "sleeping")
    /\ UNCHANGED <<now, tokenVars, service_principal_id, sync_thread,
                   current_sync_users>>

\* Line 408: the manual sync returns None or the users to its caller.
ManualReturn(t) ==
    /\ t = MainThread
    /\ Top(t) = "cb385"
    /\ pc' = [pc EXCEPT ![t] = <<"returned">>]
    /\ outcome' = [outcome EXCEPT ![t] = ManualResult(loc[t].cbU, loc[t].users)]
    /\ UNCHANGED <<now, tokenVars, service_principal_id, sync_thread, listVars,
                   loc, qlog, obs, cblog>>

\* The caller of manual_sync_service_principal has its result, or its
\* exception, and goes on.
ManualDone(t) ==
    /\ t = MainThread
    /\ Top(t) \in {"returned", "raised"}
    /\ pc' = [pc EXCEPT ![t] = <<"idle">>]
    /\ Finish(t, "none")
    /\ UNCHANGED <<now, tokenVars, service_principal_id, sync_thread,
                   current_sync_users>>

\* Line 386: time.sleep(interval) is over, back to line 375.
Sleep(t) ==
    /\ pc[t] = <<"loop386">>
    /\ pc' = [pc EXCEPT ![t] = <<"loop376">>]
    /\ UNCHANGED <<now, tokenVars, service_principal_id, sync_thread, listVars,
                   loc, histVars>>

\* ---------------------------------------------------------- specifications
\* The steps of a sync cycle, whichever thread runs it.
CycleStep(t) ==
    \/ CheckAccessToken(t)
    \/ GetAccessToken(t)
    \/ AcquireToken(t)
    \/ StoreExpiry(t)
    \/ StoreToken(t)
    \/ CheckAccessTokenResult(t)
    \/ GetServicePrincipal(t)
    \/ GetAssignedGroupsResolve(t)
    \/ GetAssignedGroups(t)
    \/ GetAssignedUsersReset(t)
    \/ GetAssignedUsers(t)
    \/ GetUsersAssignedToGroupResolve(t)
    \/ GetUsersAssignedToGroup(t)
    \/ GetUserPrincipalName(t)
    \/ GetAssignedPermissionsResolve(t)
    \/ GetAssignedPermissions(t)
    \/ SyncIdentity(t)
    \/ SyncGroups(t)
    \/ SyncUsers(t)
    \/ SyncGroupLoop(t)
    \/ SyncGroupUsers(t)
    \/ SyncUserLoop(t)
    \/ SyncSetEmail(t)
    \/ CallbackUser(t)
    \/ CallbackGroupFetch(t)
    \/ CallbackGroup(t)
    \/ CallbackPermissionFetch(t)
    \/ CallbackPermission(t)

\* The main thread calls manual_sync_service_principal time after time: sync
\* cycles that do not overlap.
Next ==
    \/ ManualSync(MainThread)
    \/ CycleStep(MainThread)
    \/ ManualReturn(MainThread)
    \/ ManualDone(MainThread)
Spec == Init /\ [][Next]_vars

\* The main thread calls auto_sync_service_principal and leaves the engine to
\* the sync_thread: the periodic cycles alone.
NextLoop ==
    \/ AutoSyncOnce(MainThread)
    \/ \E t \in LoopThreads :
        \/ LoopIterate(t)
        \/ CycleStep(t)
        \/ LoopSleep(t)
        \/ Sleep(t)
SpecLoop == Init /\ [][NextLoop]_vars

\* Every interleaving of the main thread's calls and the sync_thread.
NextOverlap ==
    \/ AutoSyncOnce(MainThread)
    \/ ManualSync(MainThread)
    \/ ManualReturn(MainThread)
    \/ ManualDone(MainThread)
    \/ \E t \in LoopThreads : LoopIterate(t) \/ LoopSleep(t) \/ Sleep(t)
    \/ \E t \in Threads : CycleStep(t)
SpecOverlap == Init /\ [][NextOverlap]_vars

\* The identity lookup finds no record yet and no group or permission callback
\* was passed: a cycle is one passage through the token gate.
IdentityUnresolved ==
    /\ service_principal_id = NoneId
    /\ \A t \in Threads : ~loc[t].cbG /\ ~loc[t].cbP

\* The cycles of the main thread and of the sync_thread, interleaved at the
\* token gate, while the directory has no record of the application.
GateStep(t) ==
    \/ CheckAccessToken(t) /\ IdentityUnresolved'
    \/ GetAccessToken(t) /\ IdentityUnresolved'
    \/ AcquireToken(t) /\ IdentityUnresolved'
    \/ StoreExpiry(t) /\ IdentityUnresolved'
    \/ StoreToken(t) /\ IdentityUnresolved'
    \/ CheckAccessTokenResult(t) /\ IdentityUnresolved'
    \/ GetServicePrincipal(t) /\ IdentityUnresolved'
    \/ SyncIdentity(t) /\ IdentityUnresolved'
    \/ CallbackUser(t) /\ IdentityUnresolved'
    \/ CallbackGroupFetch(t) /\ IdentityUnresolved'
    \/ CallbackPermissionFetch(t) /\ IdentityUnresolved'

NextGate ==
    \/ AutoSyncOnce(MainThread) /\ IdentityUnresolved'
    \/ ManualSync(MainThread)
    \/ ManualReturn(MainThread)
    \/ ManualDone(MainThread)
    \/ \E t \in LoopThreads : LoopIterate(t) \/ LoopSleep(t) \/ Sleep(t)
    \/ \E t \in Threads : GateStep(t)
SpecGate == Init /\ [][NextGate]_vars

\* The answers of a directory in which the application has at most the one
\* assignment of group g1.
OneGroupResponses == {<<>>, <<AssignmentRecord("Group", "g1")>>}

\* A small directory within the first token's lifetime: the clock stays at 0,
\* no group or permission callback is passed, g1 is the only assignment and
\* has at most the member u1.
SmallDirectory ==
    /\ now = 0
    /\ \A r \in DOMAIN heap : UserIdsOf(heap[r]) \subseteq {"u1"}
    /\ \A t \in Threads :
        /\ ~loc[t].cbG /\ ~loc[t].cbP
        /\ Len(loc[t].groups) <= 1 /\ Len(loc[t].rvGroups) <= 1
        /\ \A i \in 1..Len(obs[t].snapshot) : obs[t].snapshot[i] \in OneGroupResponses
        /\ \A i \in 1..Len(obs[t].members) : Len(obs[t].members[i].value) <= 1

\* Every request of the cycles in progress was answered: a token was issued,
\* the identity was found, every query got a 200 response.
FaultFree ==
    \A t \in Threads :
        /\ loc[t].gate # "failed"
        /\ outcome[t] # "ConnectionError"
        /\ obs[t].userFetch # "http"
        /\ \A i \in 1..Len(obs[t].members) : obs[t].members[i].res = "ok"
        /\ Top(t) = "sync354" => obs[t].snapshot # <<>>
        /\ Top(t) \in {"sync349", "gag139", "gau226", "gug272"} => loc[t].rvId # NoneId

Calm == SmallDirectory /\ FaultFree

\* The cycles of the main thread and of the sync_thread, interleaved, on the
\* small directory and without faults.
CalmStep(t) ==
    \/ CheckAccessToken(t) /\ Calm'
    \/ GetAccessToken(t) /\ Calm'
    \/ AcquireToken(t) /\ Calm'
    \/ StoreExpiry(t) /\ Calm'
    \/ StoreToken(t) /\ Calm'
    \/ CheckAccessTokenResult(t) /\ Calm'
    \/ GetServicePrincipal(t) /\ Calm'
    \/ GetAssignedGroupsResolve(t) /\ Calm'
    \/ GetAssignedGroups(t) /\ Calm'
    \/ GetAssignedUsersReset(t) /\ Calm'
    \/ GetAssignedUsers(t) /\ Calm'
    \/ GetUsersAssignedToGroupResolve(t) /\ Calm'
    \/ GetUsersAssignedToGroup(t) /\ Calm'
    \/ SyncIdentity(t) /\ Calm'
    \/ SyncGroups(t) /\ Calm'
    \/ SyncUsers(t) /\ Calm'
    \/ SyncGroupLoop(t) /\ Calm'
    \/ SyncGroupUsers(t) /\ Calm'
    \/ SyncUserLoop(t) /\ Calm'
    \/ CallbackUser(t) /\ Calm'
    \/ CallbackGroupFetch(t) /\ Calm'
    \/ CallbackPermissionFetch(t) /\ Calm'

NextCalm ==
    \/ AutoSyncOnce(MainThread) /\ Calm'
    \/ ManualSync(MainThread)
    \/ ManualReturn(MainThread)
    \/ ManualDone(MainThread)
    \/ \E t \in LoopThreads : LoopIterate(t) \/ LoopSleep(t) \/ Sleep(t)
    \/ \E t \in Threads : CalmStep(t)
SpecCalm == Init /\ [][NextCalm]_vars

\* The application calls auto_sync_service_principal more than once; the
\* sync_threads run their passes at the token gate, while the directory has
\* no record of the application.
NextTwoLoops ==
    \/ AutoSync(MainThread) /\ IdentityUnresolved'
    \/ \E t \in LoopThreads : LoopIterate(t) \/ LoopSleep(t) \/ Sleep(t)
    \/ \E t \in LoopThreads : GateStep(t)
SpecTwoLoops == Init /\ [][NextTwoLoops]_vars

\* The application calls get_assigned_permissions itself, lines 171-175; it
\* still holds the objects an earlier call returned.
PermissionsCall(t) ==
    /\ t = MainThread
    /\ pc[t] = <<"idle">>
    /\ pc' = [pc EXCEPT ![t] = GatedCall("gap178", "gap215")]
    /\ outcome' = [outcome EXCEPT ![t] = "running"]
    /\ UNCHANGED <<now, tokenVars, service_principal_id, sync_thread, listVars,
                   loc, qlog, obs, cblog>>

\* Line 215: the caller has the returned list and keeps its objects.
PermissionsKept(t) ==
    /\ Top(t) = "gap215"
    /\ pc' = [pc EXCEPT ![t] = <<"idle">>]
    /\ loc' = [loc EXCEPT ![t] = [InitLoc EXCEPT !.held = loc[t].rvRoles]]
    /\ qlog' = [qlog EXCEPT ![t] = <<>>]
    /\ outcome' = [outcome EXCEPT ![t] = "none"]
    /\ UNCHANGED <<now, tokenVars, service_principal_id, sync_thread, listVars,
                   obs, cblog>>

\* PrincipalPermissions.enable / disable on an object the caller holds.
Toggle(t) ==
    /\ pc[t] = <<"idle">>
    /\ \E k \in 1..Len(loc[t].held) :
        loc' = [loc EXCEPT ![t].held[k].is_enabled = ~@]
    /\ UNCHANGED <<now, tokenVars, service_principal_id, sync_thread, listVars,
                   pc, histVars>>

\* The application fetches the permissions time after time and enables and
\* disables the objects it holds in between.
NextPermissions ==
    \/ PermissionsCall(MainThread)
    \/ CheckAccessToken(MainThread)
    \/ GetAccessToken(MainThread)
    \/ AcquireToken(MainThread)
    \/ StoreExpiry(MainThread)
    \/ StoreToken(MainThread)
    \/ CheckAccessTokenResult(MainThread)
    \/ GetServicePrincipal(MainThread)
    \/ GetAssignedPermissionsResolve(MainThread)
    \/ GetAssignedPermissions(MainThread)
    \/ PermissionsKept(MainThread)
    \/ Toggle(MainThread)
    \/ ManualDone(MainThread)
SpecPermissions == Init /\ [][NextPermissions]_vars

\* ------------------------------------------------------------- the claims
\* sync_service_principal has returned to its caller, line 376 or 397, which
\* has not yet passed `users` on.
SyncReturned(t) == Top(t) = "cb377"

\* The elements of a sequence.
Range(s) == {s[i] : i \in 1..Len(s)}

\* The entries of the returned sequence for this user id.
EntriesOf(t, id) == {j \in 1..Len(UsersOf(t)) : UsersOf(t)[j].user_id = id}

\* The user ids of a members response.
MemberIds(value) == {value[k].id : k \in 1..Len(value)}

\* The list with every email blank.
WithoutEmail(list) == [i \in 1..Len(list) |-> [list[i] EXCEPT !.email = ""]]

\* Lines 356-357 on the members responses `ms`, aggregated into `list`.
RECURSIVE ExpandGroups(_, _)
ExpandGroups(list, ms) ==
    IF ms = <<>> THEN list
    ELSE ExpandGroups(IF Head(ms).res = "ok"
                      THEN AggregateMembers(list, Head(ms).value, Head(ms).group)
                      ELSE list,
                      Tail(ms))

\* What lines 354-357 make of the responses `o` when no other thread touches
\* self.__current_sync_users: without a 200 response to get_assigned_users
\* `users` is a list of its own and stays empty.
AloneUsers(o) ==
    IF o.userFetch = "ok"
    THEN ExpandGroups(AggregateDirect(<<>>, o.direct), o.members)
    ELSE <<>>

\* C1: whenever token issuance fails at the start of sync_service_principal,
\* with the cached token absent or present but expired, the sync ends with
\* InvalidToken at that gate and issues no directory query in the cycle.
C1_FailedStartAborts ==
    \A t \in Threads :
        obs[t].startFail => Top(t) = "cat63" /\ qlog[t] = <<>>

\* C2: a check_access_token call whose issuance returned no access token never
\* returns normally: the step that leaves line 63 after a failed issuance ends
\* the thread's cycle with InvalidToken.
C2_FailedGateRaises ==
    [][\A t \in Threads :
        (Top(t) = "cat63" /\ loc[t].gate = "failed" /\ pc'[t] # pc[t])
            => outcome'[t] = "InvalidToken"]_vars

\* C3: a check_access_token call that finds a stored token whose expiry is
\* strictly later than the clock value it reads returns at once, with no call
\* of the issuing client and with token and expiry unchanged; when the expiry
\* equals the clock value read, the call goes on to the refresh.
C3_TokenReuse ==
    [][\A t \in Threads :
        (Top(t) = "cat57" /\ pc'[t] # pc[t] /\ access_token # NoToken) =>
            /\ access_token_expiry > now' =>
                    /\ pc'[t] = Tail(pc[t])
                    /\ issued' = issued
                    /\ access_token' = access_token
                    /\ access_token_expiry' = access_token_expiry
            /\ access_token_expiry = now' => Head(pc'[t]) = "gat70"]_vars

\* A second gate of a run was passed on the token the first issuance stored.
C3_CacheHit ==
    \E t \in Threads :
        /\ Top(t) = "gag138"
        /\ issued = 1
        /\ access_token = 1
        /\ access_token_expiry > now

\* C4: when cycles do not overlap, a check_access_token call that finds no
\* valid token calls the issuing client exactly once, and after a successful
\* issuance the stored token is the issued one and the stored expiry is the
\* clock value __get_access_token read plus the expires_in.
C4_TokenRefresh ==
    \A t \in Threads :
        Top(t) = "cat63" =>
            /\ loc[t].calls = 1
            /\ loc[t].gate \in {"issued", "failed"}
            /\ loc[t].gate = "issued" =>
                    /\ access_token = loc[t].result
                    /\ access_token_expiry = loc[t].gatNow + ExpiresIn
                    /\ expiry_issue = loc[t].result
                    /\ loc[t].gatNow = now

\* An expired token has been replaced by the second issuance.
C4_Refreshed ==
    \E t \in Threads :
        /\ Top(t) = "cat63"
        /\ loc[t].gate = "issued"
        /\ loc[t].result = 2
        /\ loc[t].gatNow = 1

\* C5: in cycles that do not overlap, whatever the directory answers, the user
\* sequence sync_service_principal returns holds no two entries with one user
\* id, and the duplicate warning of line 361 is never logged.
C5_Uniqueness ==
    \A t \in Threads :
        /\ ~obs[t].dupWarn
        /\ SyncReturned(t) =>
                \A i, j \in 1..Len(UsersOf(t)) :
                    i # j => UsersOf(t)[i].user_id # UsersOf(t)[j].user_id

\* A returned user who was granted access twice in the cycle.
C5_SeveralGrants ==
    \E t \in Threads :
        /\ SyncReturned(t)
        /\ \E i \in 1..Len(UsersOf(t)) : Len(UsersOf(t)[i].permissions) = 2

\* C6: a user the cycle saw both in a direct assignment and among the members
\* of an assigned group has exactly one entry in the returned sequence; its
\* source is "Directly" and its permissions hold the direct assignment's
\* appRoleId and the group's.
C6_DirectAndMember ==
    \A t \in Threads :
        SyncReturned(t) /\ obs[t].userFetch = "ok" =>
            \A d \in Range(obs[t].direct), m \in Range(obs[t].members) :
                d.principalId \in MemberIds(m.value) =>
                    /\ Cardinality(EntriesOf(t, d.principalId)) = 1
                    /\ \A j \in EntriesOf(t, d.principalId) :
                        /\ UsersOf(t)[j].source = "Directly"
                        /\ d.appRoleId \in Range(UsersOf(t)[j].permissions)
                        /\ m.group.permissions_id \in Range(UsersOf(t)[j].permissions)

\* A sync has returned after it saw one user directly and in a group.
C6_SeenTwice ==
    \E t \in Threads :
        /\ SyncReturned(t)
        /\ obs[t].userFetch = "ok"
        /\ \E d \in Range(obs[t].direct), m \in Range(obs[t].members) :
                d.principalId \in MemberIds(m.value)

\* C7: when the appRoleAssignedTo query of get_assigned_users fails with an
\* HTTP error and every members query of the cycle succeeds, the returned set
\* holds every member of every assigned group.
C7_MembersSurviveUserFailure ==
    \A t \in Threads :
        (/\ SyncReturned(t)
         /\ obs[t].userFetch = "http"
         /\ \A m \in Range(obs[t].members) : m.res = "ok") =>
            \A m \in Range(obs[t].members) :
                MemberIds(m.value) \subseteq UserIdsOf(UsersOf(t))

\* C8: when the members query fails with an HTTP error for an assigned group,
\* the returned set still holds every directly assigned user and every member
\* of each group whose members query succeeded, each with the appRoleId of
\* that assignment.
C8_OtherGroupsSurvive ==
    \A t \in Threads :
        SyncReturned(t) /\ obs[t].userFetch = "ok" =>
            /\ \A d \in Range(obs[t].direct) :
                \E j \in EntriesOf(t, d.principalId) :
                    d.appRoleId \in Range(UsersOf(t)[j].permissions)
            /\ \A m \in Range(obs[t].members) : \A id \in MemberIds(m.value) :
                \E j \in EntriesOf(t, id) :
                    m.group.permissions_id \in Range(UsersOf(t)[j].permissions)

\* A sync has returned members of one group after the members query of
\* another group failed.
C8_OneGroupFailed ==
    \E t \in Threads :
        /\ SyncReturned(t)
        /\ obs[t].userFetch = "ok"
        /\ \E m1, m2 \in Range(obs[t].members) :
            /\ m1.res = "http"
            /\ m2.res = "ok"
            /\ m2.value # <<>>
            /\ MemberIds(m2.value) \subseteq UserIdsOf(UsersOf(t))

\* C9: no failure of a directory fetch leaves the sync cycle: a cycle never
\* ends with the transport error of a query.
C9_FetchFailuresRecovered ==
    \A t \in Threads : outcome[t] # "ConnectionError"

\* C10: once started, the periodic loop never ends: the sync_thread is never
\* terminated, whatever the sync and the callbacks of a cycle did.
C10_LoopNeverEnds ==
    \A t \in LoopThreads : Top(t) # "dead"

\* C11: when a manual sync overlaps a periodic cycle, the user sequence each
\* sync returns is what its own directory responses give when it runs alone:
\* no user is lost, duplicated or moved between the two results.
C11_CycleLocal ==
    \A t \in Threads :
        SyncReturned(t) /\ loc[t].users # NoneRef =>
            WithoutEmail(UsersOf(t)) = WithoutEmail(AloneUsers(obs[t]))

\* C12: nothing makes the refresh exclusive: a thread at line 70 that finds
\* the token absent or expired can go on to acquire_token_for_client also
\* while another thread's request is in flight.
C12_RefreshNotExclusive ==
    \A t \in Threads :
        (Top(t) = "gat70" /\ ~(access_token # NoToken /\ access_token_expiry > now)) =>
            ENABLED (GetAccessToken(t) /\ Head(pc'[t]) = "gat75")

\* Two requests for a token are in flight at once, both for the expiry of one
\* stored token.
C12_TwoInFlight ==
    /\ Top(MainThread) = "gat75"
    /\ Top(FirstLoop) = "gat75"
    /\ access_token # NoToken
    /\ access_token_expiry <= now

\* The members responses of the cycle, in order, that name the user.
GroupsWith(t, id) ==
    {k \in 1..Len(obs[t].members) : id \in MemberIds(obs[t].members[k].value)}

Lookups(t, id) ==
    Cardinality({i \in 1..Len(qlog[t]) : qlog[t][i] = Query("user", id)})

\* The users whose email is empty when the aggregation of the responses `o`
\* is complete.
EmptyEmails(o) ==
    {AloneUsers(o)[j].user_id : j \in {i \in 1..Len(AloneUsers(o)) :
                                        AloneUsers(o)[i].email = ""}}

\* C14: the enrichment pass of a sync issues one users/<id> query for each
\* aggregated user whose email is empty after aggregation, and none for a user
\* whose email came with a members record.
C14_EnrichmentQueries ==
    \A t \in Threads :
        SyncReturned(t) /\ loc[t].users # NoneRef =>
            \A id \in UserIds :
                Lookups(t, id) = IF id \in EmptyEmails(obs[t]) THEN 1 ELSE 0

\* A sync has returned one user it looked up and one whose email came with
\* the members record.
C14_OneLookedUp ==
    \E t \in Threads :
        /\ SyncReturned(t)
        /\ \E id \in UserIdsOf(UsersOf(t)) : Lookups(t, id) = 1
        /\ \E id \in UserIdsOf(UsersOf(t)) : Lookups(t, id) = 0

\* C15: when the identity of the application cannot be resolved at the start
\* of a cycle, sync_service_principal returns an empty user sequence and has
\* issued no query but the identity lookup.
C15_UnresolvedFailsSoft ==
    \A t \in Threads :
        SyncReturned(t) /\ service_principal_id = NoneId =>
            /\ loc[t].users # NoneRef
            /\ UsersOf(t) = <<>>
            /\ \A i \in 1..Len(qlog[t]) : qlog[t][i].q = "identity"

\* The callbacks passed to the manual sync, in the order of lines 398-405.
Supplied(t) ==
    (IF loc[t].cbU THEN <<"user">> ELSE <<>>)
    \o (IF loc[t].cbG THEN <<"group">> ELSE <<>>)
    \o (IF loc[t].cbP THEN <<"permission">> ELSE <<>>)

\* C16: a manual sync that returns has invoked each callback it was given
\* once, and returns the user sequence of its sync exactly when it was given
\* no user_callback (and the sync produced a sequence); it runs one sync, with
\* one get_assigned_users query at most.
C16_ManualSync ==
    /\ pc[MainThread] = <<"returned">> =>
            /\ cblog[MainThread] = Supplied(MainThread)
            /\ outcome[MainThread] = "returned users"
                    <=> (~loc[MainThread].cbU /\ loc[MainThread].users # NoneRef)
            /\ outcome[MainThread] \in {"returned users", "returned None"}
    /\ SyncReturned(MainThread) =>
            Cardinality({i \in 1..Len(qlog[MainThread]) :
                            qlog[MainThread][i].q = "users"}) <= 1

\* A manual sync given a user_callback and a group_callback has returned
\* nothing after a sync that produced users.
C16_ReturnedNothing ==
    /\ pc[MainThread] = <<"returned">>
    /\ loc[MainThread].cbU /\ loc[MainThread].cbG
    /\ UsersOf(MainThread) # <<>>
    /\ outcome[MainThread] = "returned None"

\* The step appends a query of kind `q` to the log of thread t.
Issues(t, q) ==
    /\ Len(qlog'[t]) = Len(qlog[t]) + 1
    /\ qlog'[t][Len(qlog'[t])].q = q

\* C17: over the operations of one engine, one after the other: once an
\* identity lookup has succeeded the cached id never changes and no identity
\* lookup is issued again; a lookup that finds nothing caches nothing, and a
\* get_service_principal without a cached id issues the lookup.
C17_IdentityCaching ==
    [][/\ service_principal_id # NoneId =>
            /\ service_principal_id' = service_principal_id
            /\ \A t \in Threads : ~Issues(t, "identity")
       /\ \A t \in Threads :
            (Top(t) = "gsp101" /\ service_principal_id = NoneId
                /\ pc'[t] = Tail(pc[t])) =>
                    /\ Issues(t, "identity")
                    /\ service_principal_id' = loc'[t].rvId]_vars

\* A cycle has got the cached id from get_service_principal without a query.
C17_ServedFromCache ==
    \E t \in Threads :
        /\ Top(t) = "sync349"
        /\ loc[t].rvId = PrincipalId
        /\ qlog[t] = <<>>

\* The place of a query in the state machine of a sync.
StepRank(q) ==
    CASE q = "identity" -> 0
      [] q = "groups" -> 1
      [] q = "users" -> 2
      [] q = "members" -> 3
      [] q = "user" -> 4
      [] OTHER -> 5

\* Thread t is inside sync_service_principal, or has just left it.
InSync(t) == pc[t][Len(pc[t])] = "cb377"

\* C18: the queries of one sync are issued in the order identity lookup,
\* group assignments, direct users, group members, user lookups; and when the
\* first members query is issued the direct users have been fetched and
\* aggregated.
C18_StepOrder ==
    \A t \in Threads :
        InSync(t) =>
            /\ \A i, j \in 1..Len(qlog[t]) :
                    i < j => StepRank(qlog[t][i].q) <= StepRank(qlog[t][j].q)
            /\ \A j \in 1..Len(qlog[t]) :
                    qlog[t][j].q = "members" =>
                        /\ \E i \in 1..(j - 1) : qlog[t][i].q = "users"
                        /\ obs[t].userFetch # "none"
                        /\ obs[t].userFetch = "ok" =>
                                \A d \in Range(obs[t].direct) :
                                    d.principalId \in UserIdsOf(heap[loc[t].users])

\* A sync has returned after queries of all five kinds.
C18_AllSteps ==
    \E t \in Threads :
        /\ SyncReturned(t)
        /\ {qlog[t][i].q : i \in 1..Len(qlog[t])}
                = {"identity", "groups", "users", "members", "user"}

\* The ids of `ids` without repetitions, each at its first place.
RECURSIVE FirstSeen(_)
FirstSeen(ids) ==
    IF ids = <<>> THEN <<>>
    ELSE LET rest == FirstSeen(SubSeq(ids, 1, Len(ids) - 1))
             last == ids[Len(ids)]
         IN  IF last \in Range(rest) THEN rest ELSE Append(rest, last)

\* The user ids of the members responses `ms`, in the order observed.
RECURSIVE MemberSeq(_)
MemberSeq(ms) ==
    IF ms = <<>> THEN <<>>
    ELSE [k \in 1..Len(Head(ms).value) |-> Head(ms).value[k].id] \o MemberSeq(Tail(ms))

\* The user ids the cycle observed, in the order observed.
Observed(o) == [k \in 1..Len(o.direct) |-> o.direct[k].principalId] \o MemberSeq(o.members)

\* C19: the users of the returned sequence stand in the order in which their
\* ids were first observed in the cycle.
C19_InsertionOrder ==
    \A t \in Threads :
        SyncReturned(t) /\ obs[t].userFetch = "ok" =>
            [j \in 1..Len(UsersOf(t)) |-> UsersOf(t)[j].user_id]
                = FirstSeen(Observed(obs[t]))

\* The stack of a thread that has just called sync_service_principal.
CycleStart == CallGetServicePrincipal("sync349") \o <<"cb377">>

\* C20: with auto_sync_service_principal called once, a pass of the loop
\* starts only from line 375-376 with nothing of the pass before on the
\* stack; the loop is back at line 375 only from the end of the sleep, and
\* the sleep starts only when the sync and the callback dispatch have
\* returned.
C20_PeriodicCyclesInOrder ==
    [][\A t \in LoopThreads :
        pc'[t] # pc[t] =>
            /\ pc'[t] = CycleStart => pc[t] = <<"loop376">>
            /\ pc'[t] = <<"loop376">> => pc[t] \in {<<"unstarted">>, <<"loop386">>}
            /\ pc'[t] = <<"loop386">> => pc[t] = <<"cb385">>]_vars

\* A manual sync is fetching the members of a group while the periodic cycle
\* is fetching the direct users.
C20_ManualOverlaps ==
    \E t \in LoopThreads :
        /\ Top(t) = "gau226"
        /\ Top(MainThread) = "gug272"

\* What one record grants: the fields a new UserPrincipal would get from it.
Grant(source, name, email, role) ==
    [source |-> source, name |-> name, email |-> email, role |-> role]

\* The grants of the direct assignment records `direct` to the user `id`, as
\* lines 249-255 read them.
RECURSIVE DirectGrants(_, _)
DirectGrants(direct, id) ==
    IF direct = <<>> THEN <<>>
    ELSE (IF Head(direct).principalId = id
          THEN <<Grant("Directly", Head(direct).principalDisplayName, "",
                       Head(direct).appRoleId)>>
          ELSE <<>>) \o DirectGrants(Tail(direct), id)

\* The grants of the members responses `ms` to the user `id`, as lines 300-306
\* read them.
RECURSIVE MemberGrants(_, _)
MemberGrants(ms, id) ==
    IF ms = <<>> THEN <<>>
    ELSE LET m == Head(ms)
             hit == {k \in 1..Len(m.value) : m.value[k].id = id}
         IN  (IF hit = {} THEN <<>>
              ELSE LET r == m.value[CHOOSE k \in hit : TRUE]
                   IN  <<Grant(m.group.display_name, r.displayName,
                               r.userPrincipalName, m.group.permissions_id)>>)
             \o MemberGrants(Tail(ms), id)

\* Every observation of the user `id` in the responses `o`, in order.
Grants(o, id) == DirectGrants(o.direct, id) \o MemberGrants(o.members, id)

\* The thread's sync has its working list and aggregates into it.
Aggregating(t) ==
    /\ InSync(t)
    /\ obs[t].userFetch = "ok"
    /\ loc[t].users \in DOMAIN heap

\* C21: first writer wins: an entry of the working list has the source, the
\* name and the email of the first observation of its user id in the cycle
\* (the email until the enrichment looks it up), its first permission is that
\* observation's, and every observation added one permission.
C21_FirstWriterWins ==
    \A t \in Threads :
        Aggregating(t) =>
            \A j \in 1..Len(UsersOf(t)) :
                LET u == UsersOf(t)[j]
                    g == Grants(obs[t], u.user_id)
                IN  /\ g # <<>>
                    /\ u.source = g[1].source
                    /\ u.name = g[1].name
                    /\ Lookups(t, u.user_id) = 0 => u.email = g[1].email
                    /\ u.permissions[1] = g[1].role
                    /\ Len(u.permissions) = Len(g)

\* A user first seen among the members of one group has been seen again among
\* the members of another.
C21_LaterWriter ==
    \E t \in Threads : \E j \in 1..Len(UsersOf(t)) :
        /\ Aggregating(t)
        /\ UsersOf(t)[j].source = DisplayName("g1")
        /\ UsersOf(t)[j].email # ""
        /\ UsersOf(t)[j].permissions = <<AppRoleOf("g1"), AppRoleOf("g2")>>

\* The number of places of the sequence `s` that hold `x`.
Occurrences(s, x) == Cardinality({k \in 1..Len(s) : s[k] = x})

\* The permission ids the grants `g` carry, in order.
RolesOf(g) == [k \in 1..Len(g) |-> g[k].role]

\* The permission ids of the universe.
AppRoles == {AppRoleOf(id) : id \in UserIds \cup GroupIds}

\* C25: in the result of a cycle whose user query succeeded, a user has an
\* entry exactly when the cycle observed a grant for it, and every permission
\* id stands in the entry's permissions as many times as grants with that id
\* were observed: one per direct record, one per group record whose members
\* hold the user, repetitions kept.
C25_PermissionMultiplicity ==
    \A t \in Threads :
        SyncReturned(t) /\ obs[t].userFetch = "ok" =>
            \A id \in UserIds :
                LET g == Grants(obs[t], id)
                IN  /\ Cardinality(EntriesOf(t, id)) = IF g = <<>> THEN 0 ELSE 1
                    /\ \A j \in EntriesOf(t, id) :
                        /\ Len(UsersOf(t)[j].permissions) = Len(g)
                        /\ \A r \in AppRoles :
                            Occurrences(UsersOf(t)[j].permissions, r)
                                = Occurrences(RolesOf(g), r)

\* A returned user holds one permission id twice: the group that carries it
\* was assigned by two records and has the user among its members.
C25_SamePermissionTwice ==
    \E t \in Threads : \E j \in 1..Len(UsersOf(t)) :
        /\ SyncReturned(t)
        /\ obs[t].userFetch = "ok"
        /\ UsersOf(t)[j].permissions = <<AppRoleOf("g1"), AppRoleOf("g1")>>

\* C27: over cycles that do not overlap, the sequence a sync returns holds
\* only users its own responses named, each with no more permission entries
\* of an id than its own responses granted; a sync whose user query failed
\* returns an empty sequence.  Nothing of an earlier cycle is in it.
C27_FreshPerCycle ==
    \A t \in Threads :
        SyncReturned(t) /\ loc[t].users # NoneRef =>
            IF obs[t].userFetch = "ok"
            THEN \A j \in 1..Len(UsersOf(t)) :
                    LET u == UsersOf(t)[j]
                        g == Grants(obs[t], u.user_id)
                    IN  \A r \in AppRoles \cup Range(u.permissions) :
                            Occurrences(u.permissions, r) <= Occurrences(RolesOf(g), r)
            ELSE UsersOf(t) = <<>>

\* A sync that found the identity cached by an earlier cycle has returned one
\* user, after the clock has moved on.
C27_LaterCycle ==
    \E t \in Threads :
        /\ SyncReturned(t)
        /\ \A i \in 1..Len(qlog[t]) : qlog[t][i].q # "identity"
        /\ obs[t].userFetch = "ok"
        /\ Len(UsersOf(t)) = 1
        /\ now = MaxTime

\* Thread t is inside a check_access_token call that has not stored a token.
GateWithoutIssue(t) ==
    \/ Top(t) \in {"cat57", "gat70", "gat75"}
    \/ Top(t) = "cat63" /\ loc[t].gate = "failed"

\* C23: with one caller at a time, a check_access_token call in which no
\* token is issued changes neither the stored token nor the stored expiry:
\* no step of the call up to the answer of the issuing client writes them
\* unless a token was issued, and none after an answer without a token.
C23_FailedRefreshKeepsState ==
    [][\A t \in Threads :
        (/\ GateWithoutIssue(t)
         /\ pc'[t] # pc[t]
         /\ ~(Top(t) = "gat75" /\ loc'[t].gate = "issued")) =>
            /\ access_token' = access_token
            /\ access_token_expiry' = access_token_expiry
            /\ expiry_issue' = expiry_issue
            /\ issued' = issued]_vars

\* The refresh of an expired token got no token: the expired token and its
\* expiry are still stored.
C23_FailedWithPriorToken ==
    \E t \in Threads :
        /\ Top(t) = "cat63"
        /\ loc[t].gate = "failed"
        /\ access_token = 1
        /\ access_token_expiry = ExpiresIn
        /\ now >= access_token_expiry

\* The step is a cache hit of thread t: line 57-58 or line 72-73 finds the
\* stored token valid.
CacheHit(t) ==
    \/ Top(t) = "cat57" /\ pc'[t] = Tail(pc[t])
    \/ Top(t) = "gat70" /\ Head(pc'[t]) = "cat63"

\* C24: a cache hit is taken on a token and an expiry that one issuance
\* wrote, also while another thread is in the middle of a refresh.
C24_NoHalfUpdatedHit ==
    [][\A t \in Threads : CacheHit(t) => access_token = expiry_issue]_vars

\* C29: in every state, whatever the interleaving of a refresh with the gate
\* of another thread, a stored token has a stored expiry beside it: the test
\* of lines 57 and 72 never compares an absent expiry with the clock.
C29_TokenImpliesExpiry ==
    access_token # NoToken => access_token_expiry # NoExpiry

\* One thread is between the store of the expiry and the store of the token
\* while the other is at the test of line 57.
C29_GateDuringRefresh ==
    \E t, u \in Threads :
        /\ Top(t) = "gat81"
        /\ Top(u) = "cat57"
        /\ access_token = NoToken
        /\ access_token_expiry # NoExpiry

\* The sequence `a` is an initial part of the sequence `b`.
IsPrefix(a, b) == Len(a) <= Len(b) /\ a = SubSeq(b, 1, Len(a))

\* The number of queries of kind `q` in the log of thread t.
Queries(t, q) == Cardinality({i \in 1..Len(qlog[t]) : qlog[t][i].q = q})

\* The dispatch of thread t so far: no callback before the sync has returned,
\* then the callbacks passed, in the order user, group, permission, each at
\* most once, and no fetch for a callback that was not passed.
DispatchInOrder(t) ==
    /\ InSync(t) => cblog[t] = <<>>
    /\ ~InSync(t) =>
        /\ IsPrefix(cblog[t], Supplied(t))
        /\ Queries(t, "groups") <= (IF loc[t].cbG THEN 1 ELSE 0)
        /\ Queries(t, "roles") <= (IF loc[t].cbP THEN 1 ELSE 0)
    /\ Top(t) = "cb385" => cblog[t] = Supplied(t)

C22_PermissionsEnabled ==
    \A t \in Threads :
        Top(t) = "gap215" =>
            /\ Len(loc[t].rvRoles) = Len(loc[t].appRoles)
            /\ \A k \in 1..Len(loc[t].rvRoles) :
                /\ loc[t].rvRoles[k].id = loc[t].appRoles[k]
                /\ loc[t].rvRoles[k].is_enabled

\* A call has returned the permission of a role whose object from the call
\* before was disabled by the caller.
C22_AfterDisable ==
    \E t \in Threads : \E k \in 1..Len(loc[t].held) : \E j \in 1..Len(loc[t].rvRoles) :
        /\ Top(t) = "gap215"
        /\ ~loc[t].held[k].is_enabled
        /\ loc[t].rvRoles[j].id = loc[t].held[k].id

\* The sync_threads that have been started and have not ended.
RunningLoops == {t \in LoopThreads : pc[t] # <<"unstarted">> /\ pc[t] # <<"dead">>}

\* C28: at most one periodic loop runs for the engine, also after
\* auto_sync_service_principal has been called more than once.
C28_AtMostOneLoop == Cardinality(RunningLoops) <= 1

\* C30: the groups handed to the group callback of a cycle are the groups
\* whose members the sync of that cycle expanded.
C30_CallbackGroupsAreExpanded ==
    \A t \in Threads :
        Top(t) = "cb381" => loc[t].rvGroups = obs[t].expanded

====
